---- MODULE Spec2Model ----
(***************************************************************************)
(* VGraphics (graphics.c): the fixed-capacity texture and shape tables     *)
(* with their first-fit slot search, and the ITex indexed-colour compiler. *)
(*                                                                         *)
(* The OpenGL / Win32 calls are the render surface.  Of it the model keeps *)
(* what the tables see: glGenTextures / glGenLists produce a non-zero name *)
(* that is not in use (the lowest one: names are opaque, so this is one    *)
(* representative per renaming), glDeleteTextures consumes a name.  The    *)
(* calls that need the GL context are made while the window is open.       *)
(*                                                                         *)
(* graphics.c checks no index.  A store through an index outside its array *)
(* is undefined behaviour; its outcomes are modelled as a choice between   *)
(* two builds, which differ in the layout of the static data: "adjacent"   *)
(* (the arrays of a declaration group follow each other in declaration     *)
(* order, so the store lands in a neighbour) and "apart" (the store lands  *)
(* in memory the model does not hold).  A function that falls off its end  *)
(* returns any value.  The model follows the adjacent build up to its      *)
(* first store outside an array and on from there through the calls that   *)
(* store inside the arrays.                                                *)
(***************************************************************************)
EXTENDS Integers, Sequences, FiniteSets, TLC

\* Capacities of graphics_old.h, scaled down.
VG_TEXTURES_MAX == 2
VG_SHAPES_MAX == 2
VG_ITEX_COLORS_MAX == 2
VG_ITEX_SIZE_MAX == 2

\* _texCount is only ever decremented by the API: the model stops at -MaxDestroys.
MaxDestroys == 2

VARIABLES
    _winState,      \* window open (graphics.c:107)
    _texBuffer,     \* GLuint _texBuffer[VG_TEXTURES_MAX], 0 = empty slot
    _texCount,      \* int _texCount
    _shapeBuffer,   \* GLuint _shapeBuffer[VG_SHAPES_MAX], 0 = empty slot
    _icolorR, _icolorG, _icolorB, _icolorA,   \* unsigned char [VG_ITEX_COLORS_MAX]
    _indexes,       \* unsigned short [VG_ITEX_SIZE_MAX][VG_ITEX_SIZE_MAX]
    layout,         \* how the build laid out the static data: it never changes
    clobbered,      \* a store outside its array has landed in a neighbour
    _swapTime,      \* int _swapTime (graphics.c:59)
    _renderSkip,    \* int _renderSkip, 0 or 1
    _useRenderSkip, \* int _useRenderSkip
    __lastSwap,     \* ULONGLONG __lastSwap (graphics.c:569)
    tickCount,      \* what GetTickCount64() returns now: milliseconds since boot
    VG_SWAP_TIME_MIN,  \* the constant of that name: it never changes
    call            \* the last API call: its name, arguments and what it gave back

bufVars  == <<_texBuffer, _texCount, _shapeBuffer>>
itexVars == <<_icolorR, _icolorG, _icolorB, _icolorA, _indexes>>
skipVars == <<_swapTime, _renderSkip, _useRenderSkip>>
timeVars == <<__lastSwap, tickCount, VG_SWAP_TIME_MIN>>
vars     == <<_winState, _texBuffer, _texCount, _shapeBuffer,
              _icolorR, _icolorG, _icolorB, _icolorA, _indexes, layout, clobbered,
              _swapTime, _renderSkip, _useRenderSkip, __lastSwap, tickCount,
              VG_SWAP_TIME_MIN, call>>

TexSlots   == 0 .. (VG_TEXTURES_MAX - 1)
ShapeSlots == 0 .. (VG_SHAPES_MAX - 1)
Layouts    == {"adjacent", "apart"}

Min(S) == CHOOSE m \in S : \A n \in S : m <= n

\* What a call gave back.  No function of graphics.c reports an error: each returns
\* void (ret = -1) or a handle, so err is "none" after every call.  data is the
\* pixel buffer handed to vgCreateTexture, reads the palette indices a compile
\* looked up, created the arguments of the vgCreateTexture calls made.
Returned(op, args, ret, data, reads, created) ==
    [op |-> op, args |-> args, ret |-> ret, err |-> "none",
     data |-> data, reads |-> reads, created |-> created]

Plain(op, args, ret) == Returned(op, args, ret, <<>>, {}, <<>>)

(***************************************************************************)
(* The buffer data, graphics.c:77-79.                                      *)
(***************************************************************************)
BufData == [tex |-> _texBuffer, cnt |-> _texCount, shp |-> _shapeBuffer]

\* _texBuffer[i] = v.  Past the array, in the adjacent layout, word VG_TEXTURES_MAX
\* is _texCount and the words after it are _shapeBuffer.
StoreTex(m, i, v) ==
    IF i \in TexSlots THEN [m EXCEPT !.tex[i] = v]
    ELSE IF layout = "adjacent" /\ i = VG_TEXTURES_MAX THEN [m EXCEPT !.cnt = v]
    ELSE IF layout = "adjacent" /\ (i - VG_TEXTURES_MAX - 1) \in ShapeSlots
         THEN [m EXCEPT !.shp[i - VG_TEXTURES_MAX - 1] = v]
    ELSE m

\* _shapeBuffer[i] = v.  _shapeBuffer is the last array of its group: a store past
\* it lands in memory the model does not hold.
StoreShape(m, i, v) ==
    IF i \in ShapeSlots THEN [m EXCEPT !.shp[i] = v] ELSE m

\* Values an unsigned short function may give back when it falls off its end: the
\* first slot, the loop bound and the word after it, and a word past everything
\* the model holds.
GarbageTex   == {0, VG_TEXTURES_MAX, VG_TEXTURES_MAX + 1,
                 VG_TEXTURES_MAX + VG_SHAPES_MAX + 1}
GarbageShape == {0, VG_SHAPES_MAX}

\* glGenTextures / glGenLists: a name not in use.
GenName(buf) == Min({n \in 1 .. (Cardinality(DOMAIN buf) + 1) :
                        \A i \in DOMAIN buf : buf[i] # n})

FreeSlots(buf) == {i \in DOMAIN buf : buf[i] = 0}

\* A slot search that runs from the last slot down.
findFreeTextureFromTop(buf) ==
    IF FreeSlots(buf) = {} THEN GarbageTex
    ELSE {CHOOSE m \in FreeSlots(buf) : \A n \in FreeSlots(buf) : m >= n}

\* findFreeTexture: the values it may return.  The first empty slot; with no empty
\* slot the loop ends and the function returns without a value.
findFreeTexture(buf) ==
    IF FreeSlots(buf) = {} THEN GarbageTex ELSE {Min(FreeSlots(buf))}

findFreeShape(buf) ==
    IF FreeSlots(buf) = {} THEN GarbageShape ELSE {Min(FreeSlots(buf))}

\* A destroy that deletes the GL texture but keeps the slot.
DestroyedTexKeepSlot(m, tex) ==
    [m EXCEPT !.cnt = @ - 1]

\* vgDestroyTexture's stores: _texBuffer[tex] = NULL; _texCount--.
DestroyedTex(m, tex) ==
    [StoreTex(m, tex, 0) EXCEPT !.cnt = @ - 1]

\* A call that stores outside an array when `outside` holds.
Clobber(outside) ==
    /\ ~(outside /\ layout = "adjacent" /\ clobbered)
    /\ clobbered' = (clobbered \/ (outside /\ layout = "adjacent"))

SetBuf(m) ==
    /\ _texBuffer' = m.tex
    /\ _texCount' = m.cnt
    /\ _shapeBuffer' = m.shp

\* The body of vgCreateTexture: the slot found, then glGenTextures into it.
CreateTexture(handle) ==
    /\ Clobber(handle \notin TexSlots)
    /\ SetBuf(StoreTex(BufData, handle, GenName(_texBuffer)))

Flags == {0, 1}

(***************************************************************************)
(* Window: vgInit, vgTerminate, vgUpdate, vgWProc.                         *)
(***************************************************************************)
\* vgInit, called again after the window was destroyed.
vgInit ==
    /\ ~_winState
    /\ _winState' = TRUE
    /\ _texCount' = 0
    /\ _swapTime' = VG_SWAP_TIME_MIN
    /\ _renderSkip' = 0
    /\ _useRenderSkip' = 1
    /\ call' = Plain("vgInit", <<>>, -1)
    /\ UNCHANGED <<_texBuffer, _shapeBuffer, layout, clobbered, itexVars, timeVars>>

\* vgWProc, WM_DESTROY: every texture and every list deleted, every slot emptied.
WM_DESTROY ==
    /\ _winState' = FALSE
    /\ _texBuffer' = [i \in TexSlots |-> 0]
    /\ _shapeBuffer' = [i \in ShapeSlots |-> 0]
    /\ UNCHANGED <<_texCount, itexVars>>

\* vgTerminate: DestroyWindow sends WM_DESTROY to vgWProc before it returns.
vgTerminate ==
    /\ IF _winState THEN WM_DESTROY
       ELSE UNCHANGED <<_winState, bufVars, itexVars>>
    /\ call' = Plain("vgTerminate", <<>>, -1)
    /\ UNCHANGED <<layout, skipVars, timeVars, clobbered>>

\* vgUpdate dispatches one message; the user closing the window arrives here.
vgUpdate ==
    /\ _winState
    /\ \/ WM_DESTROY /\ call' = Plain("vgUpdate", <<1>>, -1)
       \/ UNCHANGED <<_winState, bufVars, itexVars>>
          /\ call' = Plain("vgUpdate", <<0>>, -1)
    /\ UNCHANGED <<layout, skipVars, timeVars, clobbered>>

(***************************************************************************)
(* Textures and shapes.                                                    *)
(***************************************************************************)
vgCreateTexture ==
    /\ _winState
    /\ \E w \in {1}, h \in {1}, linear \in Flags, repeat \in Flags :
       \E handle \in findFreeTexture(_texBuffer) :
          /\ CreateTexture(handle)
          /\ call' = Returned("vgCreateTexture", <<w, h, linear, repeat>>, handle,
                              <<>>, {}, << <<w, h, linear, repeat>> >>)
    /\ UNCHANGED <<_winState, layout, skipVars, timeVars, itexVars>>

\* Every handle of the table, and three past it.
TexArgs == TexSlots \cup {VG_TEXTURES_MAX, VG_TEXTURES_MAX + 1,
                          VG_TEXTURES_MAX + VG_SHAPES_MAX + 1}

vgDestroyTexture ==
    /\ _winState
    /\ _texCount > 0 - MaxDestroys
    /\ \E tex \in TexArgs :
          /\ Clobber(tex \notin TexSlots)
          /\ SetBuf(DestroyedTex(BufData, tex))
          /\ call' = Plain("vgDestroyTexture", <<tex>>, -1)
    /\ UNCHANGED <<_winState, layout, skipVars, timeVars, itexVars>>

CompileShape(op) ==
    /\ _winState
    /\ \E handle \in findFreeShape(_shapeBuffer) :
          /\ SetBuf(StoreShape(BufData, handle, GenName(_shapeBuffer)))
          /\ call' = Plain(op, <<>>, handle)
    /\ UNCHANGED <<_winState, layout, skipVars, timeVars, clobbered, itexVars>>

vgCompileShape == CompileShape("vgCompileShape")

vgCompileShapeTextured == CompileShape("vgCompileShapeTextured")

(***************************************************************************)
(* The itex data, graphics.c:92-96.  In the adjacent layout the bytes of   *)
(* _icolorR, _icolorG, _icolorB, _icolorA and then the unsigned shorts of  *)
(* _indexes (low byte first) follow each other from address 0.             *)
(***************************************************************************)
ColorSlots == 0 .. (VG_ITEX_COLORS_MAX - 1)
GridSide   == 0 .. (VG_ITEX_SIZE_MAX - 1)
IndexesAt  == 4 * VG_ITEX_COLORS_MAX
ITexEnd    == IndexesAt + 2 * VG_ITEX_SIZE_MAX * VG_ITEX_SIZE_MAX

ITexData == [R |-> _icolorR, G |-> _icolorG, B |-> _icolorB, A |-> _icolorA,
             idx |-> _indexes]

SetITex(m) ==
    /\ _icolorR' = m.R
    /\ _icolorG' = m.G
    /\ _icolorB' = m.B
    /\ _icolorA' = m.A
    /\ _indexes' = m.idx

\* The byte at an address of the group.
PutByte(m, addr, b) ==
    IF addr < 0 \/ addr >= ITexEnd THEN m
    ELSE IF addr < VG_ITEX_COLORS_MAX THEN [m EXCEPT !.R[addr] = b]
    ELSE IF addr < 2 * VG_ITEX_COLORS_MAX
         THEN [m EXCEPT !.G[addr - VG_ITEX_COLORS_MAX] = b]
    ELSE IF addr < 3 * VG_ITEX_COLORS_MAX
         THEN [m EXCEPT !.B[addr - 2 * VG_ITEX_COLORS_MAX] = b]
    ELSE IF addr < IndexesAt
         THEN [m EXCEPT !.A[addr - 3 * VG_ITEX_COLORS_MAX] = b]
    ELSE LET k == (addr - IndexesAt) \div 2
             x == k \div VG_ITEX_SIZE_MAX
             y == k % VG_ITEX_SIZE_MAX
             old == m.idx[x][y]
         IN  IF (addr - IndexesAt) % 2 = 0
             THEN [m EXCEPT !.idx[x][y] = (old \div 256) * 256 + b]
             ELSE [m EXCEPT !.idx[x][y] = b * 256 + (old % 256)]

GetByte(m, addr, junk) ==
    IF addr < 0 \/ addr >= ITexEnd THEN junk
    ELSE IF addr < VG_ITEX_COLORS_MAX THEN m.R[addr]
    ELSE IF addr < 2 * VG_ITEX_COLORS_MAX THEN m.G[addr - VG_ITEX_COLORS_MAX]
    ELSE IF addr < 3 * VG_ITEX_COLORS_MAX THEN m.B[addr - 2 * VG_ITEX_COLORS_MAX]
    ELSE IF addr < IndexesAt THEN m.A[addr - 3 * VG_ITEX_COLORS_MAX]
    ELSE LET k == (addr - IndexesAt) \div 2
             cell == m.idx[k \div VG_ITEX_SIZE_MAX][k % VG_ITEX_SIZE_MAX]
         IN  IF (addr - IndexesAt) % 2 = 0 THEN cell % 256 ELSE cell \div 256

\* _icolorX[index] = v, X the chan-th array: the int is cut to an unsigned char.
StoreColor(m, chan, index, v) ==
    IF index \in ColorSlots \/ layout = "adjacent"
    THEN PutByte(m, chan * VG_ITEX_COLORS_MAX + index, v % 256)
    ELSE m

\* _icolorX[colorIndex], as read by the compile loop.
LoadColor(m, chan, colorIndex, junk) ==
    IF colorIndex \in ColorSlots \/ layout = "adjacent"
    THEN GetByte(m, chan * VG_ITEX_COLORS_MAX + colorIndex, junk)
    ELSE junk

\* The element x * VG_ITEX_SIZE_MAX + y lies in _indexes.
InIndexes(c) ==
    LET o == c[1] * VG_ITEX_SIZE_MAX + c[2]
    IN  o >= 0 /\ o < VG_ITEX_SIZE_MAX * VG_ITEX_SIZE_MAX

\* _indexes[x][y] = index: the element x * VG_ITEX_SIZE_MAX + y of the array.
StoreIndex(m, x, y, index) ==
    LET o == x * VG_ITEX_SIZE_MAX + y
    IN  IF InIndexes(<<x, y>>)
        THEN [m EXCEPT !.idx[o \div VG_ITEX_SIZE_MAX][o % VG_ITEX_SIZE_MAX] = index]
        ELSE IF layout = "adjacent"
        THEN PutByte(PutByte(m, IndexesAt + 2 * o, index % 256),
                     IndexesAt + 2 * o + 1, index \div 256)
        ELSE m

\* A clear that resets the palette and forgets the grid.
ITexClearedPaletteOnly(m) ==
    [m EXCEPT !.R = [i \in ColorSlots |-> 0], !.G = [i \in ColorSlots |-> 0],
              !.B = [i \in ColorSlots |-> 0], !.A = [i \in ColorSlots |-> 0]]

\* vgITexDataClear's two loops.
ITexCleared(m) ==
    [R |-> [i \in ColorSlots |-> 0], G |-> [i \in ColorSlots |-> 0],
     B |-> [i \in ColorSlots |-> 0], A |-> [i \in ColorSlots |-> 0],
     idx |-> [x \in GridSide |-> [y \in GridSide |-> 0]]]

\* The four stores with the red and the blue channel exchanged.
ITexColoredBGRA(m, index, r, g, b, a) ==
    StoreColor(StoreColor(StoreColor(StoreColor(m, 0, index, b), 1, index, g),
                          2, index, r),
               3, index, a)

\* vgITexDataColor's four stores.
ITexColored(m, index, r, g, b, a) ==
    StoreColor(StoreColor(StoreColor(StoreColor(m, 0, index, r), 1, index, g),
                          2, index, b),
               3, index, a)

\* vgITexDataIndexArray's loop over vx[i], vy[i].
RECURSIVE ITexIndexed(_, _, _, _)
ITexIndexed(m, index, pts, i) ==
    IF i > Len(pts) THEN m
    ELSE ITexIndexed(StoreIndex(m, pts[i][1], pts[i][2], index), index, pts, i + 1)

\* The four bytes the compile loop writes for cell (i, j).
CellBytes(m, i, j, junk) ==
    LET colorIndex == m.idx[i][j]
    IN  << LoadColor(m, 0, colorIndex, junk), LoadColor(m, 1, colorIndex, junk),
           LoadColor(m, 2, colorIndex, junk), LoadColor(m, 3, colorIndex, junk) >>

\* The inner loop, j from its value to height - 1, appending at writeIndex.
RECURSIVE CompileColumn(_, _, _, _, _, _)
CompileColumn(m, i, j, height, buf, junk) ==
    IF j >= height THEN buf
    ELSE CompileColumn(m, i, j + 1, height, buf \o CellBytes(m, i, j, junk), junk)

\* The same loops with the row and the column exchanged.
RECURSIVE CompiledBufferByRows(_, _, _, _, _, _)
CompiledBufferByRows(m, i, width, height, buf, junk) ==
    IF i >= height THEN buf
    ELSE CompiledBufferByRows(m, i + 1, width, height,
             CompileColumn([m EXCEPT !.idx = [x \in GridSide |->
                                        [y \in GridSide |-> m.idx[y][x]]]],
                           i, 0, width, buf, junk),
             junk)

\* The outer loop of vgITexDataCompile, i from its value to width - 1.
RECURSIVE CompiledBuffer(_, _, _, _, _, _)
CompiledBuffer(m, i, width, height, buf, junk) ==
    IF i >= width THEN buf
    ELSE CompiledBuffer(m, i + 1, width, height,
                        CompileColumn(m, i, 0, height, buf, junk), junk)

\* Arguments.  A colour, and one with channels past 255; palette slots 0 and 1
\* and the first index past the palette; for a cell, palette index 1 and the
\* first index past the palette; the first cells and the last cell of the grid
\* and coordinates before, beside and past it; for a compiled image, one cell,
\* one row of cells and the whole grid, as <<width, height>>; <<repeat, linear>>.
ColorArgs == { <<10, 20, 30, 255>>, <<266, 276, 286, 511>> }
SlotArgs  == {0, 1, VG_ITEX_COLORS_MAX}
IndexArgs == {1, VG_ITEX_COLORS_MAX}
CellArgs  == { <<0, 0>>, <<0, 1>>, <<1, 0>>,
               <<VG_ITEX_SIZE_MAX - 1, VG_ITEX_SIZE_MAX - 1>>,
               <<0 - 1, 0>>, <<0, VG_ITEX_SIZE_MAX>>, <<VG_ITEX_SIZE_MAX, 0>> }
SizeArgs  == { <<1, 1>>, <<VG_ITEX_SIZE_MAX, 1>>,
               <<VG_ITEX_SIZE_MAX, VG_ITEX_SIZE_MAX>> }
ModeArgs  == { <<0, 1>> }
JunkBytes == {0, 77}

\* The model follows images of at most MaxMarked marked cells.
MaxMarked == 1
Marked(m) == {c \in GridSide \X GridSide : m.idx[c[1]][c[2]] # 0}
\* vx, vy of vgITexDataIndexArray: no point, or a point and its mirror.
ArrayArgs == { <<>> } \cup { <<c, <<c[2], c[1]>> >> : c \in CellArgs }

RECURSIVE Flat(_, _)
Flat(pts, i) == IF i > Len(pts) THEN <<>> ELSE <<pts[i][1], pts[i][2]>> \o Flat(pts, i + 1)

vgITexDataClear ==
    /\ SetITex(ITexCleared(ITexData))
    /\ call' = Plain("vgITexDataClear", <<>>, -1)
    /\ UNCHANGED <<_winState, layout, skipVars, timeVars, clobbered, bufVars>>

vgITexDataColor ==
    /\ \E index \in SlotArgs, c \in ColorArgs :
          /\ Clobber(index \notin ColorSlots)
          /\ SetITex(ITexColored(ITexData, index, c[1], c[2], c[3], c[4]))
          /\ call' = Plain("vgITexDataColor", <<index, c[1], c[2], c[3], c[4]>>, -1)
    /\ UNCHANGED <<_winState, layout, skipVars, timeVars, bufVars>>

vgITexDataIndex ==
    /\ \E index \in IndexArgs, c \in CellArgs :
          LET m == StoreIndex(ITexData, c[1], c[2], index)
          IN  /\ Cardinality(Marked(m)) <= MaxMarked
              /\ Clobber(~InIndexes(c))
              /\ SetITex(m)
              /\ call' = Plain("vgITexDataIndex", <<index, c[1], c[2]>>, -1)
    /\ UNCHANGED <<_winState, layout, skipVars, timeVars, bufVars>>

vgITexDataIndexArray ==
    /\ \E index \in IndexArgs, pts \in ArrayArgs :
          LET m == ITexIndexed(ITexData, index, pts, 1)
          IN  /\ Cardinality(Marked(m)) <= MaxMarked
              /\ Clobber(\E i \in 1 .. Len(pts) : ~InIndexes(pts[i]))
              /\ SetITex(m)
              /\ call' = Plain("vgITexDataIndexArray",
                               <<index, Len(pts)>> \o Flat(pts, 1), -1)
    /\ UNCHANGED <<_winState, layout, skipVars, timeVars, bufVars>>

vgITexDataCompile ==
    /\ _winState
    /\ \E size \in SizeArgs, mode \in ModeArgs :
       LET width  == size[1]
           height == size[2]
           repeat == mode[1]
           linear == mode[2]
           args == <<width, height, repeat, linear>>
           reads == {_indexes[i][j] : i \in 0 .. (width - 1), j \in 0 .. (height - 1)}
           wild == reads \ ColorSlots # {}
       IN  \* malloc gave NULL: return 0
           \/ /\ call' = Returned("vgITexDataCompile", args, 0, <<>>, {}, <<>>)
              /\ UNCHANGED <<bufVars, clobbered>>
           \* the loops, then vgCreateTexture(width, height, linear, repeat, colorBuffer)
           \/ \E junk \in (IF wild THEN JunkBytes ELSE {0}),
                 handle \in findFreeTexture(_texBuffer) :
                 /\ CreateTexture(handle)
                 /\ call' = Returned("vgITexDataCompile", args, handle,
                        CompiledBuffer(ITexData, 0, width, height, <<>>, junk),
                        reads, << <<width, height, linear, repeat>> >>)
    /\ UNCHANGED <<_winState, layout, skipVars, timeVars, itexVars>>

(***************************************************************************)
(* Render skip, graphics.c:528-603.  _renderSkip and _useRenderSkip are    *)
(* ints used as flags.  GetTickCount64 counts the milliseconds since the   *)
(* system started and never goes back.  VG_SWAP_TIME_MIN is defined in a   *)
(* header that is not among the sources; it is taken from SwapTimeMins.    *)
(***************************************************************************)
SwapTimeMins == {0, 1}
SwapTimeArgs == {0, 2}
StateArgs    == {0, 1}

\* The clock is followed up to MaxTick.
MaxTick == 4

\* One millisecond passes.
Tick ==
    /\ tickCount < MaxTick
    /\ tickCount' = tickCount + 1
    /\ call' = Plain("Tick", <<>>, -1)
    /\ UNCHANGED <<_winState, bufVars, itexVars, layout, clobbered, skipVars,
                   __lastSwap, VG_SWAP_TIME_MIN>>

\* RENDERSKIP(_useRenderSkip), and vgGetRenderSkipState's expression.
RENDERSKIP == _renderSkip # 0 /\ _useRenderSkip # 0

vgSetSwapTime ==
    /\ \E swapTime \in SwapTimeArgs :
          /\ _swapTime' = IF swapTime < VG_SWAP_TIME_MIN THEN _swapTime ELSE swapTime
          /\ call' = Plain("vgSetSwapTime", <<swapTime>>, -1)
    /\ UNCHANGED <<_winState, bufVars, itexVars, layout, clobbered,
                   _renderSkip, _useRenderSkip, timeVars>>

vgUseRenderSkip ==
    /\ \E state \in StateArgs :
          /\ _useRenderSkip' = state
          /\ call' = Plain("vgUseRenderSkip", <<state>>, -1)
    /\ UNCHANGED <<_winState, bufVars, itexVars, layout, clobbered,
                   _swapTime, _renderSkip, timeVars>>

vgGetRenderSkipState ==
    /\ call' = Plain("vgGetRenderSkipState", <<>>, IF RENDERSKIP THEN 1 ELSE 0)
    /\ UNCHANGED <<_winState, bufVars, itexVars, layout, clobbered, skipVars, timeVars>>

\* vgClear, one of the draw calls that start with RENDERSKIP: data is what it
\* sends to the render surface.
vgClear ==
    /\ _winState
    /\ call' = Returned("vgClear", <<>>, -1,
                        IF RENDERSKIP THEN <<>> ELSE <<"glClear">>, {}, <<>>)
    /\ UNCHANGED <<_winState, bufVars, itexVars, layout, clobbered, skipVars, timeVars>>

\* vgSwap's test: (currentTime - __lastSwap) < _swapTime.
TooSoon(currentTime) == (currentTime - __lastSwap) < _swapTime

\* vgSwap: data is what it sends to the render surface.
vgSwap ==
    /\ _winState
    /\ LET currentTime == tickCount
       IN  IF TooSoon(currentTime)
           THEN /\ _renderSkip' = 1
                /\ call' = Plain("vgSwap", <<>>, -1)
                /\ UNCHANGED __lastSwap
           ELSE /\ __lastSwap' = currentTime
                /\ _renderSkip' = 0
                /\ call' = Returned("vgSwap", <<>>, -1, <<"SwapBuffers">>, {}, <<>>)
    /\ UNCHANGED <<_winState, bufVars, itexVars, layout, clobbered,
                   _swapTime, _useRenderSkip, tickCount, VG_SWAP_TIME_MIN>>

\* The statics as initialised, and vgInit done: the window is open.
Init ==
    /\ _winState = TRUE
    /\ _texBuffer = [i \in TexSlots |-> 0]
    /\ _texCount = 0
    /\ _shapeBuffer = [i \in ShapeSlots |-> 0]
    /\ _icolorR = [i \in 0 .. (VG_ITEX_COLORS_MAX - 1) |-> 0]
    /\ _icolorG = [i \in 0 .. (VG_ITEX_COLORS_MAX - 1) |-> 0]
    /\ _icolorB = [i \in 0 .. (VG_ITEX_COLORS_MAX - 1) |-> 0]
    /\ _icolorA = [i \in 0 .. (VG_ITEX_COLORS_MAX - 1) |-> 0]
    /\ _indexes = [x \in 0 .. (VG_ITEX_SIZE_MAX - 1) |->
                     [y \in 0 .. (VG_ITEX_SIZE_MAX - 1) |-> 0]]
    /\ layout \in Layouts
    /\ clobbered = FALSE
    /\ VG_SWAP_TIME_MIN \in SwapTimeMins
    /\ _swapTime = VG_SWAP_TIME_MIN
    /\ _renderSkip = 0
    /\ _useRenderSkip = 1
    /\ __lastSwap = 0
    /\ tickCount = 1
    /\ call = Plain("none", <<>>, -1)

NextBuf ==
    \/ vgInit
    \/ vgTerminate
    \/ vgUpdate
    \/ vgCreateTexture
    \/ vgDestroyTexture
    \/ vgCompileShape
    \/ vgCompileShapeTextured

SpecBuf == Init /\ [][NextBuf]_vars

NextITex ==
    \/ vgITexDataClear
    \/ vgITexDataColor
    \/ vgITexDataIndex
    \/ vgITexDataIndexArray
    \/ vgITexDataCompile

SpecITex == Init /\ [][NextITex]_vars

NextSwap ==
    \/ Tick
    \/ vgInit
    \/ vgTerminate
    \/ vgSetSwapTime
    \/ vgUseRenderSkip
    \/ vgGetRenderSkipState
    \/ vgClear
    \/ vgSwap

SpecSwap == Init /\ [][NextSwap]_vars

Next ==
    \/ NextBuf
    \/ NextITex
    \/ NextSwap

Spec == Init /\ [][Next]_vars

(***************************************************************************)
(* Properties.  A step is recognised by the call it leaves in call'.       *)
(***************************************************************************)
Allocates(c) == c.op \in {"vgCreateTexture", "vgITexDataCompile"} /\ c.created # <<>>
CompilesShape(c) == c.op \in {"vgCompileShape", "vgCompileShapeTextured"}

\* Slots 0 .. k-1 hold a resource and the others are empty: the table after k
\* allocations from empty.
Filled(buf, k) == \A i \in DOMAIN buf : (buf[i] # 0) <=> (i < k)

\* C1: from an empty table of capacity N, N consecutive allocations return
\* 0, 1, ..., N-1 in that order, and the allocation after them fails with
\* ResourceExhausted, returns no handle and leaves the tables as they were.
C1_InOrderThenResourceExhausted ==
    [][ /\ \A k \in 0 .. VG_TEXTURES_MAX :
              (Allocates(call') /\ Filled(_texBuffer, k)) =>
                 IF k < VG_TEXTURES_MAX
                 THEN call'.ret = k /\ Filled(_texBuffer', k + 1)
                 ELSE call'.err = "ResourceExhausted" /\ UNCHANGED bufVars
        /\ \A k \in 0 .. VG_SHAPES_MAX :
              (CompilesShape(call') /\ Filled(_shapeBuffer, k)) =>
                 IF k < VG_SHAPES_MAX
                 THEN call'.ret = k /\ Filled(_shapeBuffer', k + 1)
                 ELSE call'.err = "ResourceExhausted" /\ UNCHANGED bufVars
      ]_vars

\* C2: while a table has an empty slot, an allocation (vgCreateTexture for
\* textures, vgCompileShape / vgCompileShapeTextured for shapes) returns the
\* lowest-numbered empty slot, fills it, and changes no other slot of the table.
C2_LowestEmptySlot ==
    [][ /\ (Allocates(call') /\ FreeSlots(_texBuffer) # {}) =>
              LET h == Min(FreeSlots(_texBuffer))
              IN  /\ call'.ret = h
                  /\ _texBuffer'[h] # 0
                  /\ \A i \in TexSlots \ {h} : _texBuffer'[i] = _texBuffer[i]
        /\ (CompilesShape(call') /\ FreeSlots(_shapeBuffer) # {}) =>
              LET h == Min(FreeSlots(_shapeBuffer))
              IN  /\ call'.ret = h
                  /\ _shapeBuffer'[h] # 0
                  /\ \A i \in ShapeSlots \ {h} : _shapeBuffer'[i] = _shapeBuffer[i]
      ]_vars

\* C2's case: after two releases a texture is created in slot 0 while slot 1 is
\* held.
C2_Witness ==
    /\ call.op = "vgCreateTexture" /\ call.ret = 0
    /\ _texBuffer[0] # 0 /\ _texBuffer[1] # 0
    /\ _texCount = 0 - 2 /\ ~clobbered

\* C3: no allocation returns a handle whose slot holds a live resource: the
\* handle returned names a slot of the table that was empty before the call and
\* holds the new resource after it, so the handles held are pairwise distinct.
C3_NeverALiveSlot ==
    [][ /\ Allocates(call') =>
              /\ call'.ret \in TexSlots
              /\ _texBuffer[call'.ret] = 0
              /\ _texBuffer'[call'.ret] # 0
        /\ CompilesShape(call') =>
              /\ call'.ret \in ShapeSlots
              /\ _shapeBuffer[call'.ret] = 0
              /\ _shapeBuffer'[call'.ret] # 0
      ]_vars

\* C4: vgDestroyTexture(h) of a live handle h empties slot h, and when h is then
\* the lowest-numbered empty slot the next allocation returns h again.
C4_ReleaseThenReuse ==
    [][ /\ (call'.op = "vgDestroyTexture" /\ call'.args[1] \in TexSlots) =>
              _texBuffer'[call'.args[1]] = 0
        /\ ( /\ call.op = "vgDestroyTexture"
             /\ call.args[1] \in FreeSlots(_texBuffer)
             /\ call.args[1] = Min(FreeSlots(_texBuffer))
             /\ Allocates(call') ) =>
              call'.ret = call.args[1]
      ]_vars

\* C4's case: since vgInit slot 0 and slot 1 were filled, slot 0 was released
\* (the one release: _texCount is -1) and the allocation after it returned 0.
C4_Witness ==
    /\ call.op = "vgCreateTexture" /\ call.ret = 0
    /\ _texBuffer[0] # 0 /\ _texBuffer[1] # 0
    /\ _texCount = 0 - 1 /\ ~clobbered

\* C5: releasing a handle whose slot is empty, or a handle that is not below
\* the capacity, fails with InvalidHandle and changes no slot and no other
\* allocator state.
C5_InvalidHandle ==
    [][ ( /\ call'.op = "vgDestroyTexture"
          /\ \/ call'.args[1] \notin TexSlots
             \/ call'.args[1] \in FreeSlots(_texBuffer) ) =>
           /\ call'.err = "InvalidHandle"
           /\ UNCHANGED bufVars
      ]_vars

\* The palette entry i and the state in which palette and grid are all zero.
PaletteEntry(i) == <<_icolorR[i], _icolorG[i], _icolorB[i], _icolorA[i]>>
AllZero ==
    /\ \A i \in ColorSlots : PaletteEntry(i) = <<0, 0, 0, 0>>
    /\ \A x \in GridSide, y \in GridSide : _indexes[x][y] = 0
\* A compile whose allocation succeeded and that went on to create the texture.
Compiled(c) == c.op = "vgITexDataCompile" /\ c.created # <<>>

\* C6: vgITexDataCompile(width, height, ...) builds a buffer of
\* width * height * 4 bytes in which the four bytes at offset
\* 4 * (x * height + y) are the R, G, B, A of the palette entry that grid cell
\* (x, y) holds, for every cell whose index is a palette slot: x is the outer
\* coordinate, so cell (0, 1) comes before cell (1, 0).
C6_ColumnMajorBuffer ==
    [][ Compiled(call') =>
          LET width  == call'.args[1]
              height == call'.args[2]
          IN  /\ Len(call'.data) = width * height * 4
              /\ \A x \in 0 .. (width - 1), y \in 0 .. (height - 1) :
                    _indexes[x][y] \in ColorSlots =>
                       SubSeq(call'.data, 4 * (x * height + y) + 1,
                                          4 * (x * height + y) + 4)
                          = PaletteEntry(_indexes[x][y])
      ]_vars

\* C6's case: the whole grid compiled with palette entry 1 = (10, 20, 30, 255)
\* in cell (0, 1) alone; its bytes are the second group of four.
C6_Witness ==
    /\ Compiled(call)
    /\ call.args[1] = VG_ITEX_SIZE_MAX /\ call.args[2] = VG_ITEX_SIZE_MAX
    /\ Marked(ITexData) = { <<0, 1>> } /\ _indexes[0][1] = 1
    /\ PaletteEntry(0) = <<0, 0, 0, 0>> /\ PaletteEntry(1) = <<10, 20, 30, 255>>
    /\ SubSeq(call.data, 1, 8) = <<0, 0, 0, 0, 10, 20, 30, 255>>

\* C7: vgITexDataClear leaves every palette entry (0, 0, 0, 0) and every grid
\* cell 0 whatever came before; while no set operation intervenes they stay so,
\* and a compile then yields a buffer of zero bytes only, reads palette entry 0
\* only and reports no error.
C7_ClearThenCompileZero ==
    [][ /\ call'.op = "vgITexDataClear" => AllZero'
        /\ (AllZero /\ call'.op \in {"vgITexDataClear", "vgITexDataCompile"}) => AllZero'
        /\ (AllZero /\ Compiled(call')) =>
              /\ call'.err = "none"
              /\ call'.reads = {0}
              /\ Len(call'.data) = call'.args[1] * call'.args[2] * 4
              /\ \A k \in 1 .. Len(call'.data) : call'.data[k] = 0
      ]_vars

\* C7's case: the image was compiled before (slot 0 is taken), palette and grid
\* are zero, and the whole grid compiled to sixteen zero bytes in slot 1.
C7_Witness ==
    /\ Compiled(call) /\ call.ret = 1 /\ _texBuffer[0] # 0
    /\ AllZero
    /\ call.args[1] = VG_ITEX_SIZE_MAX /\ call.args[2] = VG_ITEX_SIZE_MAX
    /\ call.data = [k \in 1 .. 4 * VG_ITEX_SIZE_MAX * VG_ITEX_SIZE_MAX |-> 0]

\* C8: vgITexDataCompile never reads the palette at an index outside the
\* palette: for a grid cell holding such an index it takes an entry of the
\* palette instead or fails with PaletteIndexOutOfRange.
C8_NoReadOutsidePalette ==
    call.op = "vgITexDataCompile" =>
       \/ call.reads \subseteq ColorSlots
       \/ call.err = "PaletteIndexOutOfRange"

\* C9: vgITexDataColor with an index that is not a palette slot fails with
\* PaletteIndexOutOfRange and leaves the palette and the grid as they were.
C9_PaletteIndexOutOfRange ==
    [][ (call'.op = "vgITexDataColor" /\ call'.args[1] \notin ColorSlots) =>
           /\ call'.err = "PaletteIndexOutOfRange"
           /\ UNCHANGED itexVars
      ]_vars

\* The points of a vgITexDataIndexArray call, from its recorded arguments.
ArrayPoints(c) == { <<c.args[2 * k + 1], c.args[2 * k + 2]>> : k \in 1 .. c.args[2] }

\* C10: vgITexDataIndex and vgITexDataIndexArray with a coordinate outside the
\* grid fail with GridCoordinateOutOfRange and write no cell, and the palette
\* and grid stay as they were; with coordinates inside the grid the cell takes
\* the index given, whether or not it is a palette slot.
C10_GridCoordinateOutOfRange ==
    [][ /\ ( \/ /\ call'.op = "vgITexDataIndex"
                /\ <<call'.args[2], call'.args[3]>> \notin GridSide \X GridSide
             \/ /\ call'.op = "vgITexDataIndexArray"
                /\ ArrayPoints(call') \ (GridSide \X GridSide) # {} ) =>
              /\ call'.err = "GridCoordinateOutOfRange"
              /\ UNCHANGED itexVars
        /\ ( /\ call'.op = "vgITexDataIndex"
             /\ <<call'.args[2], call'.args[3]>> \in GridSide \X GridSide ) =>
              _indexes'[call'.args[2]][call'.args[3]] = call'.args[1]
      ]_vars

\* A compile whose malloc gave NULL.
CompileNoMemory(c) == c.op = "vgITexDataCompile" /\ c.created = <<>>

\* C11: when the allocation of the pixel buffer fails, vgITexDataCompile fails
\* with OutOfMemory, makes no texture-creation call, so that no slot of the
\* tables changes, and the value it reports is not the handle of a live texture.
C11_OutOfMemory ==
    [][ CompileNoMemory(call') =>
          /\ call'.err = "OutOfMemory"
          /\ UNCHANGED bufVars
          /\ ~(call'.ret \in TexSlots /\ _texBuffer'[call'.ret] # 0)
      ]_vars

\* C12: a vgITexDataCompile(width, height, repeat, linear) that gets its buffer
\* makes exactly one texture-creation call, with the same width and height, the
\* filter mode linear and the wrap mode repeat, returns the handle of that call,
\* and so fills exactly one texture slot that was empty, the lowest-numbered
\* one, changing no other texture slot and no shape slot.
C12_OneCreateTexture ==
    [][ Compiled(call') =>
          /\ call'.created = << <<call'.args[1], call'.args[2],
                                  call'.args[4], call'.args[3]>> >>
          /\ FreeSlots(_texBuffer) # {}
          /\ call'.ret = Min(FreeSlots(_texBuffer))
          /\ _texBuffer'[call'.ret] # 0
          /\ \A i \in TexSlots \ {call'.ret} : _texBuffer'[i] = _texBuffer[i]
          /\ _shapeBuffer' = _shapeBuffer
      ]_vars

\* C13: vgITexDataCompile modifies neither the palette nor the grid, so that a
\* compile that follows a compile of the same width and height, with no
\* vgITexDataColor, vgITexDataIndex, vgITexDataIndexArray or vgITexDataClear
\* between them, builds the same bytes (the handles may differ).
C13_CompileRepeats ==
    [][ /\ call'.op = "vgITexDataCompile" => UNCHANGED itexVars
        /\ ( /\ Compiled(call) /\ Compiled(call')
             /\ call'.args[1] = call.args[1]
             /\ call'.args[2] = call.args[2] ) =>
              call'.data = call.data
      ]_vars

\* C14: the texture table and the shape table are independent: vgCreateTexture
\* and vgDestroyTexture leave every shape slot as it was, and vgCompileShape and
\* vgCompileShapeTextured leave every texture slot as it was, so that the slot
\* the next allocation of one table finds does not depend on the calls made on
\* the other.
C14_TablesIndependent ==
    [][ /\ call'.op \in {"vgCreateTexture", "vgDestroyTexture"} =>
              /\ _shapeBuffer' = _shapeBuffer
              /\ findFreeShape(_shapeBuffer') = findFreeShape(_shapeBuffer)
        /\ CompilesShape(call') =>
              /\ _texBuffer' = _texBuffer
              /\ findFreeTexture(_texBuffer') = findFreeTexture(_texBuffer)
      ]_vars

\* C15: vgITexDataColor(index, r, g, b, a) with index a palette slot makes
\* entry index (r, g, b, a), each channel as the 8 bits the entry holds,
\* whatever the entry was, and changes no other entry and no grid cell;
\* vgITexDataIndex(index, x, y) with (x, y) in the grid changes grid cell (x, y)
\* only, to index, and no palette entry.
C15_SetChangesOnlyItsTarget ==
    [][ /\ (call'.op = "vgITexDataColor" /\ call'.args[1] \in ColorSlots) =>
              /\ << _icolorR'[call'.args[1]], _icolorG'[call'.args[1]],
                    _icolorB'[call'.args[1]], _icolorA'[call'.args[1]] >> =
                    << call'.args[2] % 256, call'.args[3] % 256,
                       call'.args[4] % 256, call'.args[5] % 256 >>
              /\ \A i \in ColorSlots \ {call'.args[1]} :
                    PaletteEntry(i)' = PaletteEntry(i)
              /\ _indexes' = _indexes
        /\ ( /\ call'.op = "vgITexDataIndex"
             /\ <<call'.args[2], call'.args[3]>> \in GridSide \X GridSide ) =>
              /\ _indexes'[call'.args[2]][call'.args[3]] = call'.args[1]
              /\ \A c \in (GridSide \X GridSide) \ {<<call'.args[2], call'.args[3]>>} :
                    _indexes'[c[1]][c[2]] = _indexes[c[1]][c[2]]
              /\ \A i \in ColorSlots : PaletteEntry(i)' = PaletteEntry(i)
      ]_vars

\* C15's case: entry 1 was set, with channels past 255, while entry 0 and grid
\* cell (0, 1) were set before; both are as they were set.
C15_Witness ==
    /\ call.op = "vgITexDataColor" /\ call.args = <<1, 266, 276, 286, 511>>
    /\ PaletteEntry(1) = <<10, 20, 30, 255>>
    /\ PaletteEntry(0) = <<10, 20, 30, 255>>
    /\ _indexes[0][1] = 1

\* C16: a vgSwap made less than _swapTime ticks after the last swap performed
\* performs no swap and sets _renderSkip, and every other vgSwap, the first one
\* included, performs the swap and clears _renderSkip, so that two swaps
\* performed are at least _swapTime ticks apart; vgGetRenderSkipState returns
\* true exactly when _renderSkip is set and _useRenderSkip is set; and while
\* that is so the guarded draw call vgClear returns without drawing.
\* (__lastSwap is 0 until a swap is performed and the tick of the last swap
\* performed from then on.)
C16_RenderSkipThrottle ==
    [][ /\ call'.op = "vgSwap" =>
              IF __lastSwap # 0 /\ tickCount - __lastSwap < _swapTime
              THEN call'.data = <<>> /\ _renderSkip' = 1
              ELSE call'.data = <<"SwapBuffers">> /\ _renderSkip' = 0
        /\ (call'.op = "vgSwap" /\ call'.data # <<>> /\ __lastSwap # 0) =>
              tickCount - __lastSwap >= _swapTime
        /\ call'.op = "vgGetRenderSkipState" =>
              (call'.ret = 1 <=> (_renderSkip # 0 /\ _useRenderSkip # 0))
        /\ (call'.op = "vgClear" /\ _renderSkip # 0 /\ _useRenderSkip # 0) =>
              call'.data = <<>>
      ]_vars

\* What vgSwap does instead: it measures from the tick kept in __lastSwap, which
\* is 0, the start of the system's tick count, while no swap has been performed.
RenderSkipFromLastSwapTick ==
    [][ /\ call'.op = "vgSwap" =>
              IF tickCount - __lastSwap < _swapTime
              THEN /\ call'.data = <<>> /\ _renderSkip' = 1
                   /\ __lastSwap' = __lastSwap
              ELSE /\ call'.data = <<"SwapBuffers">> /\ _renderSkip' = 0
                   /\ __lastSwap' = tickCount
        /\ (call'.op = "vgSwap" /\ call'.data # <<>> /\ __lastSwap # 0) =>
              __lastSwap' - __lastSwap >= _swapTime
        /\ call'.op = "vgGetRenderSkipState" =>
              (call'.ret = 1 <=> (_renderSkip # 0 /\ _useRenderSkip # 0))
        /\ call'.op = "vgClear" =>
              (call'.data = <<>> <=> (_renderSkip # 0 /\ _useRenderSkip # 0))
      ]_vars

Occupied(buf) == {i \in DOMAIN buf : buf[i] # 0}

\* C17: while the window is open no call empties a shape slot: a step that
\* leaves the window open keeps every occupied shape slot occupied, and
\* vgCompileShape / vgCompileShapeTextured only add to the occupied slots; the
\* only step that empties shape slots is the destruction of the window, which
\* empties every shape slot and every texture slot at once.
C17_ShapeSlotsOnlyFill ==
    [][ /\ ~(_winState /\ ~_winState') =>
              Occupied(_shapeBuffer) \subseteq Occupied(_shapeBuffer')
        /\ CompilesShape(call') =>
              /\ Occupied(_shapeBuffer) \subseteq Occupied(_shapeBuffer')
              /\ call'.ret \in ShapeSlots => call'.ret \in Occupied(_shapeBuffer')
        /\ (_winState /\ ~_winState') =>
              /\ Occupied(_shapeBuffer') = {}
              /\ Occupied(_texBuffer') = {}
      ]_vars

\* _texCount counts the textures alive.
TexCounted ==
    /\ _texCount >= 0
    /\ _texCount = Cardinality(Occupied(_texBuffer))

\* A vgCreateTexture that finds an empty slot, or a vgDestroyTexture of a live
\* handle.
OnLiveHandles(c) ==
    \/ c.op = "vgCreateTexture" /\ FreeSlots(_texBuffer) # {}
    \/ c.op = "vgDestroyTexture" /\ c.args[1] \in Occupied(_texBuffer)

\* C18: after vgInit and any sequence of vgCreateTexture and vgDestroyTexture
\* calls on live handles, _texCount is never negative and equals the number of
\* non-empty texture slots: vgInit makes it so and each such call keeps it so;
\* and the handle findFreeTexture chooses is the lowest empty slot whatever
\* the value of _texCount.
C18_TexCountCountsLiveTextures ==
    [][ /\ call'.op = "vgInit" => TexCounted'
        /\ (TexCounted /\ OnLiveHandles(call')) => TexCounted'
        /\ (call'.op = "vgCreateTexture" /\ FreeSlots(_texBuffer) # {}) =>
              call'.ret = Min(FreeSlots(_texBuffer))
      ]_vars

====
